---- MODULE Spec2Model ----
\* TV fitness timer: the drift-safe countdown engine (utils/time.js) and the
\* D-pad focus routing (FocusManager.js, useDpadNavigation.js, TVFocusable.js).
EXTENDS Integers, Sequences, FiniteSets, TLC

VARIABLES
    \* ---- monotonic clock, performance.now() in ms, and how late after its
    \* requested time the host may fire a setTimeout callback
    now, maxLate,
    \* ---- countdown(...) closure state, time.js:70-77
    durationSeconds, tickRateMs, endTime,
    paused, pauseStartedAt, accumulatedPause, completed,
    \* ---- startDriftSafeInterval closure state, time.js:32-34, and its setTimeout
    active, start, count, timerPending, timerDue,
    \* ---- what the callbacks received: calls of onTick, its last argument, calls of onComplete
    onTickCalls, lastTick, onCompleteCalls,
    \* ---- what the last getState() call returned
    snapshot,
    \* ---- the WorkoutTimer that owns the engine, if one does: its duration,
    \* remaining, running and completed state, whether engineRef.current is set,
    \* the start() its Play button deferred with the remaining it closed over,
    \* and the engines it created that engineRef no longer holds and that were
    \* not cancelled
    timer,
    \* ---- FocusManagerProvider: the registry Map in insertion order, the disposers
    \* handed out by register (the id each one closes over), the currentId state and
    \* the currentId the keydown listener closed over when it was attached
    registry, disposers, currentId, listenerCurrentId,
    \* ---- the provider's keydown effect: whether it is mounted and owes a
    \* cleanup, listenerAttachedRef.current, and the listeners it has on window
    routerListener,
    \* ---- the mounted useDpadNavigation instances
    grids,
    \* ---- the last keydown event dispatched on window: its normalized key, the
    \* event's own key and code, the
    \* coordinators that acted on it, whether the router called moveFocus, the
    \* calls of the modal's onClose it led to, and the TVFocusable whose onSelect
    \* it called
    evt,
    \* ---- the document: document.activeElement, the setTimeout(..., 0) callbacks
    \* requested and not yet run, in the order they were requested
    activeElement, timeouts,
    \* ---- the requestAnimationFrame callbacks requested and not yet run, in
    \* the order they were requested, and the DOM calls the last one to run issued
    frames, domCalls,
    \* ---- App: the selectedExercise state, lastFocusedRef.current, the
    \* initialFocusId prop given to ExerciseModal, and the keydown listeners the
    \* modal's key effect has on window
    selectedExercise, lastFocusedRef, initialFocusId, modalListeners

engineVars == <<durationSeconds, tickRateMs, endTime, paused, pauseStartedAt,
                accumulatedPause, completed>>
intervalVars == <<active, start, count, timerPending, timerDue>>
callbackVars == <<onTickCalls, lastTick, onCompleteCalls, timer>>
timerVars == <<now, maxLate, snapshot, engineVars, intervalVars, callbackVars>>

focusVars == <<registry, disposers, currentId, listenerCurrentId, routerListener>>
domVars == <<activeElement, timeouts, frames, domCalls>>
appVars == <<selectedExercise, lastFocusedRef, initialFocusId, modalListeners>>
keyVars == <<grids, evt, domVars, appVars>>

vars == <<timerVars, focusVars, keyVars>>

\* ------------------------------------------------------------------ bounds
\* the clock advances in steps of Quantum ms, MaxQuanta steps past the longest deadline
Quantum == 500
MaxQuanta == 2
MaxDur == 2
\* the uninterrupted scenario of the spec: countdown(5, ...)
ScenarioDur == 5
\* register calls per run, coordinators on the page, grid sizes
MaxRegisters == 3
NumGrids == 2
MaxRows == 2
MaxCols == 2
\* the largest rowCount / colCount of the single coordinator of SpecGrid
GridMaxCount == 3
\* the most negative rowCount / colCount of SpecDegenerate is -MaxNegCount
MaxNegCount == 2
\* setTimeout callbacks requested and not yet run
MaxTimeouts == 2
\* requestAnimationFrame callbacks requested and not yet run
MaxFrames == 1
\* the longest seconds prop and preset of the WorkoutTimer of SpecTimer
MaxTimerDur == 1
\* the clock step of SpecDrift in ms, and the largest lateness bound in such steps
DriftQuantum == 50
MaxLateSteps == 5

\* ------------------------------------------------------------------ program constants
DefaultTickRateMs == 250
TimerTickRateMs == 200
MsPerSecond == 1000

Max(a, b) == IF a >= b THEN a ELSE b
Min(a, b) == IF a <= b THEN a ELSE b
\* (variant: the quotient is rounded down)
FloorDiv(x, d) == x \div d

\* Math.ceil(x / d) for x >= 0
CeilDiv(x, d) == (x + d - 1) \div d

\* ------------------------------------------------------------------ countdown engine
\* computeRemaining, time.js:79-84
\* (variant: the pause start is ignored, the running clock is always used)
ComputeRemainingIgnoringPause(t, isPaused, pStart, accPause) ==
    CeilDiv(Max(0, endTime + accPause - t), MsPerSecond)

ComputeRemainingAt(t, isPaused, pStart, accPause) ==
    LET effectiveNow == IF isPaused THEN pStart ELSE t
        remainMs == Max(0, endTime + accPause - effectiveNow)
    IN  CeilDiv(remainMs, MsPerSecond)

ComputeRemaining == ComputeRemainingAt(now, paused, pauseStartedAt, accumulatedPause)

\* (variants: the comparison is off by one, either way)
CompletesBelowZero(remaining) == remaining < 0
CompletesAtOne(remaining) == remaining <= 1

\* the completion test of tick, time.js:90
Completes(remaining) == remaining <= 0

\* no WorkoutTimer: the engine's callbacks are those of another caller
NoTimer == [mounted |-> FALSE, duration |-> 0, remaining |-> 0, running |-> FALSE,
            completed |-> FALSE, engine |-> FALSE, pendingStart |-> <<>>,
            orphans |-> 0]

\* handleTick, part_004:446-448, and handleComplete, part_004:450-462, as the
\* onTick and onComplete of the engine a WorkoutTimer started
HandleTick(t, r) == IF t.mounted THEN [t EXCEPT !.remaining = r] ELSE t
HandleComplete(t) == IF t.mounted THEN [t EXCEPT !.running = FALSE, !.completed = TRUE] ELSE t

\* (variant: completion does not call cancelInterval())
TickBodyNoCancel ==
    IF completed
    THEN UNCHANGED <<completed, active, callbackVars>>
    ELSE LET remaining == CeilDiv(Max(0, endTime + accumulatedPause
                                         - (IF paused THEN pauseStartedAt ELSE now)), MsPerSecond) IN
         /\ onTickCalls' = onTickCalls + 1
         /\ lastTick' = remaining
         /\ active' = active
         /\ IF remaining <= 0
            THEN /\ completed' = TRUE
                 /\ onCompleteCalls' = onCompleteCalls + 1
                 /\ timer' = HandleComplete(HandleTick(timer, remaining))
            ELSE /\ UNCHANGED <<completed, onCompleteCalls>>
                 /\ timer' = HandleTick(timer, remaining)

\* tick(), time.js:86-95, as a relation on the engine and callback variables;
\* cancelInterval() of line 92 is the interval's disposer: active := false
TickBody ==
    IF completed
    THEN UNCHANGED <<completed, active, callbackVars>>
    ELSE LET remaining == ComputeRemaining IN
         /\ onTickCalls' = onTickCalls + 1
         /\ lastTick' = remaining
         /\ IF Completes(remaining)
            THEN /\ completed' = TRUE
                 /\ active' = FALSE
                 /\ onCompleteCalls' = onCompleteCalls + 1
                 /\ timer' = HandleComplete(HandleTick(timer, remaining))
            ELSE /\ UNCHANGED <<completed, active, onCompleteCalls>>
                 /\ timer' = HandleTick(timer, remaining)

\* (variant: the naive interval, each wake-up requested a full interval after the last)
NextDelayNaive(t, k) == tickRateMs

\* nextDelay of the drift-safe interval, time.js:38-44: target = start + count*interval
NextDelay(t, k) ==
    LET target == start + k * tickRateMs
        drift == t - target
    IN  Max(0, tickRateMs - drift)

\* (variant: the interval's callback calls tick() whether paused or not)
WakeUpIgnoresPause ==
    /\ timerPending
    /\ now >= timerDue
    /\ IF ~active
       THEN /\ timerPending' = FALSE
            /\ UNCHANGED <<now, maxLate, snapshot, engineVars, active, start, count, timerDue, callbackVars>>
            /\ UNCHANGED <<focusVars, keyVars>>
       ELSE /\ count' = count + 1
            /\ TickBody
            /\ timerDue' = now + NextDelay(now, count + 1)
            /\ timerPending' = TRUE
            /\ UNCHANGED <<now, maxLate, snapshot, durationSeconds, tickRateMs, endTime, paused,
                           pauseStartedAt, accumulatedPause, start>>
            /\ UNCHANGED <<focusVars, keyVars>>

\* one wake-up of the interval's tick, time.js:36-47, with the callback of
\* time.js:99-101 (if (!paused) tick()) inlined
WakeUp ==
    /\ timerPending
    /\ now >= timerDue
    /\ IF ~active
       THEN /\ timerPending' = FALSE
            /\ UNCHANGED <<now, maxLate, snapshot, engineVars, active, start, count, timerDue, callbackVars>>
            /\ UNCHANGED <<focusVars, keyVars>>
       ELSE /\ count' = count + 1
            /\ IF paused
               THEN UNCHANGED <<completed, active, callbackVars>>
               ELSE TickBody
            /\ timerDue' = now + NextDelay(now, count + 1)
            /\ timerPending' = TRUE
            /\ UNCHANGED <<now, maxLate, snapshot, durationSeconds, tickRateMs, endTime, paused,
                           pauseStartedAt, accumulatedPause, start>>
            /\ UNCHANGED <<focusVars, keyVars>>

\* (variant: the early return is missing, a second pause() restarts the pause)
PauseUnguarded ==
    /\ paused' = TRUE
    /\ pauseStartedAt' = now
    /\ UNCHANGED <<now, maxLate, snapshot, durationSeconds, tickRateMs, endTime, accumulatedPause,
                   completed, intervalVars, callbackVars>>
    /\ UNCHANGED <<focusVars, keyVars>>

\* (variant: pause() returns early only when already paused)
PauseIgnoresCompleted ==
    /\ IF paused
       THEN UNCHANGED <<paused, pauseStartedAt>>
       ELSE /\ paused' = TRUE
            /\ pauseStartedAt' = now
    /\ UNCHANGED <<now, maxLate, snapshot, durationSeconds, tickRateMs, endTime, accumulatedPause,
                   completed, intervalVars, callbackVars>>
    /\ UNCHANGED <<focusVars, keyVars>>

\* pause(), time.js:108-112
Pause ==
    /\ IF paused \/ completed
       THEN UNCHANGED <<paused, pauseStartedAt>>
       ELSE /\ paused' = TRUE
            /\ pauseStartedAt' = now
    /\ UNCHANGED <<now, maxLate, snapshot, durationSeconds, tickRateMs, endTime, accumulatedPause,
                   completed, intervalVars, callbackVars>>
    /\ UNCHANGED <<focusVars, keyVars>>

\* (variant: the pause length is not added)
ResumeForgetsPause ==
    /\ IF ~paused \/ completed
       THEN UNCHANGED paused
       ELSE paused' = FALSE
    /\ UNCHANGED <<now, maxLate, snapshot, durationSeconds, tickRateMs, endTime, pauseStartedAt,
                   accumulatedPause, completed, intervalVars, callbackVars>>
    /\ UNCHANGED <<focusVars, keyVars>>

\* resume(), time.js:114-119
Resume ==
    /\ IF ~paused \/ completed
       THEN UNCHANGED <<paused, accumulatedPause>>
       ELSE /\ accumulatedPause' = accumulatedPause + (now - pauseStartedAt)
            /\ paused' = FALSE
    /\ UNCHANGED <<now, maxLate, snapshot, durationSeconds, tickRateMs, endTime, pauseStartedAt,
                   completed, intervalVars, callbackVars>>
    /\ UNCHANGED <<focusVars, keyVars>>

\* (variant: the disposer clears the timeout but leaves the active flag set)
CancelIntervalKeepsActive ==
    /\ active' = active
    /\ timerPending' = IF count = 0 THEN FALSE ELSE timerPending
    /\ UNCHANGED <<start, count, timerDue>>

\* the disposer of startDriftSafeInterval, time.js:52-55: clearTimeout(timerId)
\* removes only the first timeout, the one requested on line 50
CancelInterval ==
    /\ active' = FALSE
    /\ timerPending' = IF count = 0 THEN FALSE ELSE timerPending
    /\ UNCHANGED <<start, count, timerDue>>

\* cancel(), time.js:121-123 (cancelInterval is set by loop() before it returns)
Cancel ==
    /\ CancelInterval
    /\ UNCHANGED <<now, maxLate, snapshot, engineVars, callbackVars>>
    /\ UNCHANGED <<focusVars, keyVars>>

\* the clock: performance.now() is monotonic
Horizon(d) == d * MsPerSecond + MaxQuanta * Quantum

Advance ==
    /\ now + Quantum <= Horizon(durationSeconds)
    /\ now' = now + Quantum
    /\ UNCHANGED <<maxLate, snapshot, engineVars, intervalVars, callbackVars>>
    /\ UNCHANGED <<focusVars, keyVars>>

\* the clock under a host that fires a requested wake-up at most maxLate ms
\* after its requested time: it moves by a step, or to the instant the pending
\* wake-up was requested for, and never past that instant plus maxLate
AdvanceLate ==
    /\ \E t \in {now + DriftQuantum} \cup (IF timerPending /\ timerDue > now THEN {timerDue} ELSE {}) :
          /\ t <= Horizon(durationSeconds)
          /\ timerPending => t <= timerDue + maxLate
          /\ now' = t
    /\ UNCHANGED <<maxLate, snapshot, engineVars, intervalVars, callbackVars>>
    /\ UNCHANGED <<focusVars, keyVars>>

\* the host's timers: setTimeout never fires early; how late it fires is not
\* bounded unless a specification bounds it
Unbounded == -1
TimerLateness(l) == maxLate = l

\* getState has not been called
NoSnapshot == [paused |-> FALSE, completed |-> FALSE, remaining |-> 0, total |-> 0]

\* (variant: getState settles a completion it finds due, as tick does)
GetStateCompletes ==
    /\ snapshot' = [paused |-> paused, completed |-> Completes(ComputeRemaining),
                    remaining |-> ComputeRemaining, total |-> durationSeconds]
    /\ completed' = (completed \/ Completes(ComputeRemaining))
    /\ UNCHANGED <<now, maxLate, durationSeconds, tickRateMs, endTime, paused, pauseStartedAt,
                   accumulatedPause, intervalVars, callbackVars>>
    /\ UNCHANGED <<focusVars, keyVars>>

\* getState(), time.js:125-130
GetState ==
    /\ snapshot' = [paused |-> paused, completed |-> completed,
                    remaining |-> ComputeRemaining, total |-> durationSeconds]
    /\ UNCHANGED <<now, maxLate, engineVars, intervalVars, callbackVars>>
    /\ UNCHANGED <<focusVars, keyVars>>

\* the state right after countdown({durationSeconds: d, tickRateMs: r}) returned,
\* at clock 0: loop() requested the first wake-up (time.js:49-50) and the priming
\* tick (time.js:106) delivered onTick(d)
EngineCreated(d, r) ==
    /\ now = 0
    /\ durationSeconds = d
    /\ tickRateMs = r
    /\ endTime = d * MsPerSecond
    /\ paused = FALSE
    /\ pauseStartedAt = 0
    /\ accumulatedPause = 0
    /\ completed = FALSE
    /\ active = TRUE
    /\ start = 0
    /\ count = 0
    /\ timerPending = TRUE
    /\ timerDue = r
    /\ onTickCalls = 1
    /\ lastTick = d
    /\ onCompleteCalls = 0
    /\ timer = NoTimer
    /\ snapshot = NoSnapshot

\* ------------------------------------------------------------------ key normalizer
\* the keydown events of the model: each a (key, code) pair
KeyEvents ==
    { [key |-> k, code |-> ""] :
        k \in {"ArrowUp", "Down", "Left", "ArrowRight", "OK", "Escape", " ", "X"} }
    \cup { [key |-> "", code |-> "NumpadEnter"] }

\* the keys the table maps to Back, tvKeyMap.js
BackKeyEvents ==
    { [key |-> k, code |-> ""] : k \in {"Back", "Escape", "Esc", "Backspace"} }

\* every key and code of the normalizer's table, with keys and codes outside it
TableKeys ==
    {"ArrowUp", "Up", "ArrowDown", "Down", "ArrowLeft", "Left", "ArrowRight", "Right",
     "Enter", "OK", "Back", "Escape", "Esc", "Backspace", " ", "Spacebar", "Space",
     "X", "a", ""}
TableCodes == {"", "Enter", "NumpadEnter", "Escape", "Space", "KeyX"}
AllKeyEvents == [key : TableKeys, code : TableCodes]

\* (variant: e.code is not consulted)
NormalizeTVKeyNoCode(e) ==
    LET key == e.key
    IN  IF key = "ArrowUp" \/ key = "Up" THEN "ArrowUp"
        ELSE IF key = "ArrowDown" \/ key = "Down" THEN "ArrowDown"
        ELSE IF key = "ArrowLeft" \/ key = "Left" THEN "ArrowLeft"
        ELSE IF key = "ArrowRight" \/ key = "Right" THEN "ArrowRight"
        ELSE IF key = "Enter" \/ key = "OK" THEN "Enter"
        ELSE IF key = "Back" \/ key = "Escape" \/ key = "Esc" \/ key = "Backspace" THEN "Back"
        ELSE IF key = " " \/ key = "Spacebar" \/ key = "Space" THEN "Space"
        ELSE key

\* normalizeTVKey, tvKeyMap.js:12-32
NormalizeTVKey(e) ==
    LET key == e.key
        code == e.code
    IN  IF key = "ArrowUp" \/ key = "Up" THEN "ArrowUp"
        ELSE IF key = "ArrowDown" \/ key = "Down" THEN "ArrowDown"
        ELSE IF key = "ArrowLeft" \/ key = "Left" THEN "ArrowLeft"
        ELSE IF key = "ArrowRight" \/ key = "Right" THEN "ArrowRight"
        ELSE IF key = "Enter" \/ key = "OK" \/ code = "Enter" \/ code = "NumpadEnter" THEN "Enter"
        ELSE IF key = "Back" \/ key = "Escape" \/ key = "Esc" \/ key = "Backspace" THEN "Back"
        ELSE IF key = " " \/ key = "Spacebar" \/ key = "Space" THEN "Space"
        ELSE key

\* isArrow, isActivationKey, isBackKey, tvKeyMap.js:39-59
isArrow(k) == k = "ArrowUp" \/ k = "ArrowDown" \/ k = "ArrowLeft" \/ k = "ArrowRight"
isActivationKey(k) == k = "Enter" \/ k = "Space"
\* (variant: Escape counts as Back before normalization, as the doc comment reads)
isBackKeyOrEscape(k) == k = "Back" \/ k = "Escape"

isBackKey(k) == k = "Back"

\* ------------------------------------------------------------------ keydown effects
\* one instance's keydown effect (FocusManager.js:496-532,
\* useDpadNavigation.js:125-139): live tells whether the effect is mounted,
\* cleanup whether its last run returned a cleanup, attached is
\* listenerAttachedRef.current, listeners the number of its listeners on window
NoListener == [live |-> FALSE, cleanup |-> FALSE, attached |-> FALSE, listeners |-> 0]

\* the effect body runs: nothing when the flag is set, else addEventListener
\* and the flag, returning the cleanup
EffectRun(l) ==
    IF l.attached
    THEN [l EXCEPT !.live = TRUE, !.cleanup = FALSE]
    ELSE [live |-> TRUE, cleanup |-> TRUE, attached |-> TRUE, listeners |-> l.listeners + 1]

\* (variant: the cleanup removes the listener and leaves the flag set)
EffectCleanupKeepsFlag(l) ==
    IF l.cleanup
    THEN [live |-> FALSE, cleanup |-> FALSE, attached |-> l.attached, listeners |-> l.listeners - 1]
    ELSE [l EXCEPT !.live = FALSE]

\* React runs the cleanup the last run returned, if any: removeEventListener
\* and the flag cleared
EffectCleanup(l) ==
    IF l.cleanup
    THEN [live |-> FALSE, cleanup |-> FALSE, attached |-> FALSE, listeners |-> l.listeners - 1]
    ELSE [l EXCEPT !.live = FALSE]

\* a dependency of the effect changed: React runs the cleanup, then the effect
Reattach(l) == EffectRun(EffectCleanup(l))

\* ------------------------------------------------------------------ focus registry
Ids == {"a", "b", "c"}
\* currentId === null
NoId == "null"

\* (variant: a key already held is removed and added again at the end)
MapSetMovesToEnd(reg, entry) ==
    Append(SelectSeq(reg, LAMBDA en : en.id # entry.id), entry)

\* registryRef.current.set(id, entry), FocusManager.js:384-386: a Map keeps the
\* position of a key it already holds and appends a new key
MapSet(reg, entry) ==
    IF \E i \in 1..Len(reg) : reg[i].id = entry.id
    THEN [i \in 1..Len(reg) |-> IF reg[i].id = entry.id THEN entry ELSE reg[i]]
    ELSE Append(reg, entry)

\* the disposer returned by register, FocusManager.js:387-389:
\* registryRef.current.delete(id), whatever entry the id now maps to
DisposerRemoves(reg, id, token) ==
    SelectSeq(reg, LAMBDA en : en.id # id)

\* register(id, ref, meta), FocusManager.js:384-390, as TVFocusable calls it
\* (TVFocusable.js:77) with ref = {current: localRef.current}: node tells whether
\* that snapshot holds a DOM node; token names the entry object of this call
Register(id, node) ==
    /\ Len(disposers) < MaxRegisters
    /\ registry' = MapSet(registry, [id |-> id, token |-> Len(disposers) + 1, node |-> node])
    /\ disposers' = Append(disposers, id)
    /\ UNCHANGED <<currentId, listenerCurrentId, routerListener, keyVars, timerVars>>

\* a call of the disposer that the t-th register call returned
Dispose(t) ==
    /\ t \in 1..Len(disposers)
    /\ registry' = DisposerRemoves(registry, disposers[t], t)
    /\ UNCHANGED <<disposers, currentId, listenerCurrentId, routerListener, keyVars, timerVars>>

\* getById(id)?.ref?.current is a node, FocusManager.js:415-417
HasNode(reg, id) == \E i \in 1..Len(reg) : reg[i].id = id /\ reg[i].node

\* (variant: the frame is requested for every registered entry, node or not)
SetFocusAnyEntry(id) ==
    /\ Len(frames) < MaxFrames
    /\ currentId' = id
    /\ frames' = IF \E i \in 1..Len(registry) : registry[i].id = id
                  THEN Append(frames, id) ELSE frames
    /\ UNCHANGED <<registry, disposers, listenerCurrentId, routerListener, timerVars>>
    /\ UNCHANGED <<grids, evt, activeElement, timeouts, domCalls, appVars>>

\* setFocus(id), FocusManager.js:412-444: setCurrentId(id) for any id, and a
\* requestAnimationFrame callback closing over the node when the entry has one
SetFocus(id) ==
    /\ Len(frames) < MaxFrames
    /\ currentId' = id
    /\ frames' = IF HasNode(registry, id) THEN Append(frames, id) ELSE frames
    /\ UNCHANGED <<registry, disposers, listenerCurrentId, routerListener, timerVars>>
    /\ UNCHANGED <<grids, evt, activeElement, timeouts, domCalls, appVars>>

\* React runs the cleanup of the provider's keydown effect, FocusManager.js:521-529
\* (an unmount, or the unmount StrictMode simulates after the first mount, index.js:10)
ProviderEffectCleanup ==
    /\ routerListener.live
    /\ routerListener' = EffectCleanup(routerListener)
    /\ UNCHANGED <<registry, disposers, currentId, listenerCurrentId, keyVars, timerVars>>

\* React runs the provider's keydown effect again, FocusManager.js:496-519: the
\* onKeyDown it attaches closes over the currentId of the render it belongs to
ProviderEffectMount ==
    /\ ~routerListener.live
    /\ routerListener' = EffectRun(routerListener)
    /\ listenerCurrentId' = IF routerListener.attached THEN listenerCurrentId ELSE currentId
    /\ UNCHANGED <<registry, disposers, currentId, keyVars, timerVars>>

\* entries.findIndex((e) => e.id === id), 0-based, -1 when absent
FindIndex(reg, id) ==
    IF \E i \in 1..Len(reg) : reg[i].id = id
    THEN (CHOOSE i \in 1..Len(reg) : reg[i].id = id) - 1
    ELSE -1

\* nextIndex of moveFocus, FocusManager.js:468-471
NextIndex(reg, cur, delta) ==
    LET currentIndex == Max(0, FindIndex(reg, cur))
        raw == currentIndex + delta
        low == IF raw < 0 THEN 0 ELSE raw
    IN  IF low >= Len(reg) THEN Len(reg) - 1 ELSE low

\* moveFocus(delta), FocusManager.js:465-493: the currentId it leaves, where cur
\* is the currentId its closure reads and focus the currentId state before the call
MoveFocus(reg, cur, delta, focus) ==
    IF Len(reg) = 0
    THEN focus
    ELSE LET next == reg[NextIndex(reg, cur, delta) + 1]
         IN  IF next.node THEN next.id ELSE focus

\* ------------------------------------------------------------------ grid coordinator
Coordinators == 1..NumGrids

\* row tells whether the hook is the one of a Row component, whose onEnter
\* selects the focused item (TVFocusable.js:218-224); seenRow and seenCol are the
\* focused indices the attached onKeyDown closed over (useDpadNavigation.js:98-123)
Unmounted == [mounted |-> FALSE, rowCount |-> 0, colCount |-> 0, loop |-> FALSE,
              onBack |-> FALSE, row |-> FALSE, focusedRow |-> 0, focusedCol |-> 0,
              listener |-> NoListener, seenRow |-> 0, seenCol |-> 0]

\* val || 1
OrOne(n) == IF n = 0 THEN 1 ELSE n

\* (variant: the lower bound is not applied)
ClampNoFloor(val, lo, hi) == Min(hi, val)

\* clamp, useDpadNavigation.js:72
Clamp(val, lo, hi) == Max(lo, Min(hi, val))

\* (variant: loop is ignored, the index always stops at the boundary)
HandleArrowNoLoop(g, key) ==
    LET nextRow == IF key = "ArrowUp" THEN g.focusedRow - 1
                   ELSE IF key = "ArrowDown" THEN g.focusedRow + 1 ELSE g.focusedRow
        nextCol == IF key = "ArrowLeft" THEN g.focusedCol - 1
                   ELSE IF key = "ArrowRight" THEN g.focusedCol + 1 ELSE g.focusedCol
    IN  <<Clamp(nextRow, 0, Max(0, OrOne(g.rowCount) - 1)),
          Clamp(nextCol, 0, Max(0, OrOne(g.colCount) - 1))>>

\* (variant: a vertical move returns to the first column)
HandleArrowResetsColumn(g, key) ==
    LET upRow == IF g.focusedRow - 1 < 0
                 THEN (IF g.loop THEN g.rowCount - 1 ELSE 0) ELSE g.focusedRow - 1
        downRow == IF g.focusedRow + 1 >= g.rowCount
                   THEN (IF g.loop THEN 0 ELSE g.rowCount - 1) ELSE g.focusedRow + 1
        leftCol == IF g.focusedCol - 1 < 0
                   THEN (IF g.loop THEN g.colCount - 1 ELSE 0) ELSE g.focusedCol - 1
        rightCol == IF g.focusedCol + 1 >= g.colCount
                    THEN (IF g.loop THEN 0 ELSE g.colCount - 1) ELSE g.focusedCol + 1
        nextRow == IF key = "ArrowUp" THEN upRow
                   ELSE IF key = "ArrowDown" THEN downRow ELSE g.focusedRow
        nextCol == IF key = "ArrowLeft" THEN leftCol
                   ELSE IF key = "ArrowRight" THEN rightCol ELSE 0
    IN  <<Clamp(nextRow, 0, Max(0, OrOne(g.rowCount) - 1)),
          Clamp(nextCol, 0, Max(0, OrOne(g.colCount) - 1))>>

\* handleArrow(key), useDpadNavigation.js:74-96: the (row, col) passed to setFocused
HandleArrow(g, key) ==
    LET upRow == IF g.focusedRow - 1 < 0
                 THEN (IF g.loop THEN g.rowCount - 1 ELSE 0) ELSE g.focusedRow - 1
        downRow == IF g.focusedRow + 1 >= g.rowCount
                   THEN (IF g.loop THEN 0 ELSE g.rowCount - 1) ELSE g.focusedRow + 1
        leftCol == IF g.focusedCol - 1 < 0
                   THEN (IF g.loop THEN g.colCount - 1 ELSE 0) ELSE g.focusedCol - 1
        rightCol == IF g.focusedCol + 1 >= g.colCount
                    THEN (IF g.loop THEN 0 ELSE g.colCount - 1) ELSE g.focusedCol + 1
        nextRow == IF key = "ArrowUp" THEN upRow
                   ELSE IF key = "ArrowDown" THEN downRow ELSE g.focusedRow
        nextCol == IF key = "ArrowLeft" THEN leftCol
                   ELSE IF key = "ArrowRight" THEN rightCol ELSE g.focusedCol
    IN  <<Clamp(nextRow, 0, Max(0, OrOne(g.rowCount) - 1)),
          Clamp(nextCol, 0, Max(0, OrOne(g.colCount) - 1))>>

\* setFocused(r, c), useDpadNavigation.js:48-70: the new hook state. The
\* el.focus() it defers to an animation frame targets what getRef returns, for a
\* Row the cell wrapper (TVFocusable.js:264-273), a div without tabindex that
\* cannot take focus, so document.activeElement is not changed by it
SetFocused(g, rc) == [g EXCEPT !.focusedRow = rc[1], !.focusedCol = rc[2]]

\* the hook renders again after a state or option change: onKeyDown is a new
\* function (its dependencies, useDpadNavigation.js:96, 123), so the listener
\* effect runs again (useDpadNavigation.js:125-139)
\* (variant: the listener effect does not run again, as with dependencies [])
RenderedKeepsListener(g) == g

Rendered(g) ==
    LET cleaned == EffectCleanup(g.listener)
    IN  [g EXCEPT !.listener = EffectRun(cleaned),
                  !.seenRow = IF cleaned.attached THEN g.seenRow ELSE g.focusedRow,
                  !.seenCol = IF cleaned.attached THEN g.seenCol ELSE g.focusedCol]

\* whether the coordinator's onKeyDown acts on the key, useDpadNavigation.js:98-123:
\* handleArrow, or a call of the onEnter / onBack it was given (onEnter is given
\* by every caller, Row.js passes no onBack)
GridActs(g, k) ==
    /\ g.mounted
    /\ \/ isArrow(k)
       \/ isActivationKey(k)
       \/ isBackKey(k) /\ g.onBack

\* the calls of onEnter / onBack the coordinators make on the key,
\* useDpadNavigation.js:106-122, each with the indices its onKeyDown closed over
GridCalls(gs, k) ==
    {[grid |-> c, fn |-> IF isBackKey(k) THEN "onBack" ELSE "onEnter",
      row |-> gs[c].seenRow, col |-> gs[c].seenCol] :
        c \in {c \in DOMAIN gs : /\ gs[c].mounted
                                  /\ \/ isActivationKey(k)
                                     \/ isBackKey(k) /\ gs[c].onBack}}

\* the coordinator's onKeyDown, useDpadNavigation.js:98-123: its state afterwards
GridOnKeyDown(g, k) ==
    IF g.mounted /\ isArrow(k) THEN Rendered(SetFocused(g, HandleArrow(g, k))) ELSE g

\* the hook mounts: state from initialRow / initialCol as given, unclamped
\* (useDpadNavigation.js:43-44), and the listener attached on window, capture
\* phase (useDpadNavigation.js:125-129)
MountGridAt(c, rows, cols, loop, back, initialRow, initialCol) ==
    /\ ~grids[c].mounted
    /\ grids' = [grids EXCEPT ![c] = [mounted |-> TRUE, rowCount |-> rows, colCount |-> cols,
                                      loop |-> loop, onBack |-> back, row |-> FALSE,
                                      focusedRow |-> initialRow, focusedCol |-> initialCol,
                                      listener |-> EffectRun(grids[c].listener),
                                      seenRow |-> initialRow, seenCol |-> initialCol]]
    /\ UNCHANGED <<evt, domVars, appVars, focusVars, timerVars>>

\* the hook mounts with initialRow and initialCol left at their default, 0
MountGrid(c, rows, cols, loop, back) == MountGridAt(c, rows, cols, loop, back, 0, 0)

\* a call of the setFocused the hook returns (useDpadNavigation.js:141-146)
CallSetFocused(c, r, col) ==
    /\ grids[c].mounted
    /\ grids' = [grids EXCEPT ![c] = Rendered(SetFocused(grids[c], <<r, col>>))]
    /\ UNCHANGED <<evt, domVars, appVars, focusVars, timerVars>>

\* the owner renders again with other rowCount / colCount options: the focused
\* indices are state and stay as they are (useDpadNavigation.js:31-44)
Rerender(c, rows, cols) ==
    /\ grids[c].mounted
    /\ grids' = [grids EXCEPT ![c] = Rendered([@ EXCEPT !.rowCount = rows, !.colCount = cols])]
    /\ UNCHANGED <<evt, domVars, appVars, focusVars, timerVars>>

\* the hook unmounts: the effect's cleanup removes the listener, useDpadNavigation.js:130-138
UnmountGrid(c) ==
    /\ grids[c].mounted
    /\ grids' = [grids EXCEPT ![c] = [Unmounted EXCEPT !.listener = EffectCleanup(grids[c].listener)]]
    /\ UNCHANGED <<evt, domVars, appVars, focusVars, timerVars>>

\* ------------------------------------------------------------------ document and modal
\* document.activeElement when no element holds focus
Body == "body"

\* selectedExercise === null; an exercise is named by the Row and the column it came from
NoExercise == [row |-> 0, col |-> 0]

\* the elements ExerciseModal renders inside its container, in document order
\* (ExerciseModal.js:110-200): the title block, the Close button and the first
\* preset chips, each chip a TVFocusable rendered as a button with tabindex 0,
\* data-focusable="true" and data-focus-id = id (TVFocusable.js:160-172)
ModalDom ==
    << [el |-> "title", button |-> FALSE, marked |-> FALSE, tabindex |-> <<>>,
        disabled |-> FALSE, focusId |-> ""],
       [el |-> "exercise-close", button |-> TRUE, marked |-> TRUE, tabindex |-> <<0>>,
        disabled |-> FALSE, focusId |-> "exercise-close"],
       [el |-> "modal-preset-30", button |-> TRUE, marked |-> TRUE, tabindex |-> <<0>>,
        disabled |-> FALSE, focusId |-> "modal-preset-30"],
       [el |-> "modal-preset-45", button |-> TRUE, marked |-> TRUE, tabindex |-> <<0>>,
        disabled |-> FALSE, focusId |-> "modal-preset-45"] >>

ModalEls == {ModalDom[i].el : i \in 1..Len(ModalDom)}

\* the ids the modal's TVFocusables register under, in mount order
ModalIds == SelectSeq([i \in 1..Len(ModalDom) |-> ModalDom[i].focusId], LAMBDA id : id # "")

\* the values of the initialFocusId prop: the one App passes (App.js:154), the
\* id of another control, and an id no element carries
InitialFocusIds == {"exercise-close", "modal-preset-45", "missing"}

\* collectFocusable, ExerciseModal.js:24-33: the nodes matched by
\* '[data-focusable="true"], button, [tabindex]' that pass the filter
collectFocusable(mounted) ==
    IF ~mounted
    THEN <<>>
    ELSE SelectSeq(ModalDom, LAMBDA n :
            /\ (n.marked \/ n.button \/ n.tabindex # <<>>)
            /\ LET ti == IF n.tabindex = <<>> THEN 0 ELSE n.tabindex[1]
               IN  ~n.disabled /\ (ti >= 0 \/ n.button))

\* whether el.focus() moves the focus: the element is attached to the document
\* and focusable (a page TVFocusable, or a modal control while the modal is mounted)
CanFocus(el, mounted) ==
    \/ el \in Ids
    \/ /\ mounted
       /\ \E i \in 1..Len(ModalDom) :
            /\ ModalDom[i].el = el
            /\ (ModalDom[i].button \/ ModalDom[i].tabindex # <<>>)
            /\ ~ModalDom[i].disabled

\* document.activeElement after el.focus()
FocusEl(el, activeEl, mounted) == IF CanFocus(el, mounted) THEN el ELSE activeEl

\* f.findIndex((el) => el === active), 0-based, -1 when absent
FindActive(f, activeEl) ==
    IF \E i \in 1..Len(f) : f[i].el = activeEl
    THEN (CHOOSE i \in 1..Len(f) : f[i].el = activeEl) - 1
    ELSE -1

\* (variant: an activeEl element outside the list is left where it is)
TrapArrowNoRefocus(f, k, activeEl) ==
    IF Len(f) = 0
    THEN activeEl
    ELSE LET idx == FindActive(f, activeEl)
             nextIdx == IF k = "ArrowRight" THEN Min(Len(f) - 1, idx + 1)
                        ELSE IF k = "ArrowLeft" THEN Max(0, idx - 1) ELSE idx
         IN  IF idx >= 0 THEN FocusEl(f[nextIdx + 1].el, activeEl, TRUE) ELSE activeEl

\* the arrow branch of the modal's onKeyDown, ExerciseModal.js:60-80:
\* document.activeElement afterwards
TrapArrow(f, k, activeEl) ==
    IF Len(f) = 0
    THEN activeEl
    ELSE LET idx == FindActive(f, activeEl)
             nextIdx == IF k = "ArrowRight" THEN Min(Len(f) - 1, idx + 1)
                        ELSE IF k = "ArrowLeft" THEN Max(0, idx - 1) ELSE idx
         IN  IF idx >= 0
             THEN FocusEl(f[nextIdx + 1].el, activeEl, TRUE)
             ELSE FocusEl(f[1].el, activeEl, TRUE)

\* (variant: the open effect always takes the first collected element)
OpenTargetFirst(id) ==
    LET f == collectFocusable(TRUE)
    IN  IF Len(f) > 0 THEN f[1].el ELSE NoId

\* the target of the open effect, ExerciseModal.js:39-41:
\* querySelector('[data-focus-id="<initialFocusId>"]') || f[0]
OpenTarget(id) ==
    LET f == collectFocusable(TRUE)
        q == SelectSeq(ModalDom, LAMBDA n : n.focusId = id)
    IN  IF Len(q) > 0 THEN q[1].el
        ELSE IF Len(f) > 0 THEN f[1].el ELSE NoId

OpenTimeout == [kind |-> "open", el |-> ""]
RestoreTimeout(el) == [kind |-> "restore", el |-> el]

\* ExerciseModal mounts: its TVFocusables register (TVFocusable.js:75-83) and
\* the open effect requests its timeout (ExerciseModal.js:36-46)
RECURSIVE RegisterAll(_, _, _)
RegisterAll(reg, ids, token) ==
    IF ids = <<>>
    THEN reg
    ELSE RegisterAll(MapSet(reg, [id |-> Head(ids), token |-> token, node |-> TRUE]),
                     Tail(ids), token + 1)

\* ExerciseModal unmounts: the disposers of its TVFocusables run
RECURSIVE DisposeAll(_, _)
DisposeAll(reg, ids) ==
    IF ids = <<>>
    THEN reg
    ELSE DisposeAll(DisposerRemoves(reg, Head(ids), 0), Tail(ids))

\* ------------------------------------------------------------------ WorkoutTimer
\* the operations below give the engine, interval and callback variables after
\* the call; the clock is left to the action that makes the call

\* stopEngine, part_004:435-444, on the interval variables: cancel() of the
\* engine engineRef.current holds, if it holds one
\* (variant: engineRef is cleared without cancel())
StopEngineNoCancel == UNCHANGED intervalVars

StopEngine ==
    IF timer.engine THEN CancelInterval ELSE UNCHANGED intervalVars

\* (variant: start() does not call stopEngine(), the engine it replaces stays as it is)
ReplacedStaysLive(live) == live

\* whether the engine that start() replaces is still active once engineRef
\* holds the new one: stopEngine() of part_004:468 has cancelled it
ReplacedLive(live) == FALSE

\* start() of a render in which running was false, part_004:464-475, with d the
\* remaining that render's start closed over: stopEngine(), then
\* countdown({durationSeconds: d, tickRateMs: 200}), whose priming tick
\* (time.js:106) calls handleTick and, at 0, completes at once. The state
\* updates of one handler are applied together, the last one of a kind winning.
\* A timeout the stopped engine left behind fires without effect and is dropped.
\* pending is the deferred start() still to run afterwards.
TimerStart(d, pending) ==
    LET remaining == CeilDiv(Max(0, d * MsPerSecond), MsPerSecond)
        done == Completes(remaining)
    IN  /\ durationSeconds' = d
        /\ tickRateMs' = TimerTickRateMs
        /\ endTime' = now + d * MsPerSecond
        /\ paused' = FALSE
        /\ pauseStartedAt' = 0
        /\ accumulatedPause' = 0
        /\ completed' = done
        /\ active' = ~done
        /\ start' = now
        /\ count' = 0
        /\ timerPending' = ~done
        /\ timerDue' = now + TimerTickRateMs
        /\ onTickCalls' = 1
        /\ lastTick' = remaining
        /\ onCompleteCalls' = IF done THEN 1 ELSE 0
        /\ timer' = [timer EXCEPT !.remaining = remaining, !.running = ~done,
                                  !.completed = done, !.engine = TRUE, !.pendingStart = pending,
                                  !.orphans = IF ReplacedLive(timer.engine /\ active)
                                              THEN @ + 1 ELSE @]

\* pause() of the component, part_004:477-481
TimerPause ==
    IF ~timer.running \/ ~timer.engine
    THEN UNCHANGED <<engineVars, intervalVars, callbackVars>>
    ELSE /\ IF paused \/ completed
            THEN UNCHANGED <<paused, pauseStartedAt>>
            ELSE paused' = TRUE /\ pauseStartedAt' = now
         /\ timer' = [timer EXCEPT !.running = FALSE]
         /\ UNCHANGED <<durationSeconds, tickRateMs, endTime, accumulatedPause, completed,
                        intervalVars, onTickCalls, lastTick, onCompleteCalls>>

\* resume() of the component, part_004:483-487, with setRemaining(duration) first
\* when onPlay found remaining <= 0 (part_004:647)
TimerResume(rem) ==
    IF timer.running \/ ~timer.engine
    THEN /\ timer' = [timer EXCEPT !.remaining = rem]
         /\ UNCHANGED <<engineVars, intervalVars, onTickCalls, lastTick, onCompleteCalls>>
    ELSE /\ IF ~paused \/ completed
            THEN UNCHANGED <<paused, accumulatedPause>>
            ELSE /\ accumulatedPause' = accumulatedPause + (now - pauseStartedAt)
                 /\ paused' = FALSE
         /\ timer' = [timer EXCEPT !.running = TRUE, !.remaining = rem]
         /\ UNCHANGED <<durationSeconds, tickRateMs, endTime, pauseStartedAt, completed,
                        intervalVars, onTickCalls, lastTick, onCompleteCalls>>

\* reset(), part_004:489-494, and the select of a preset chip of s seconds,
\* part_004:676-682: stopEngine() and the state set from the duration
TimerReset(s) ==
    /\ StopEngine
    /\ timer' = [timer EXCEPT !.duration = s, !.remaining = s, !.running = FALSE,
                              !.completed = FALSE, !.engine = FALSE]
    /\ UNCHANGED <<engineVars, onTickCalls, lastTick, onCompleteCalls>>

\* the component's keydown listener, part_004:497-521: an activation key starts
\* when not running (setRemaining(duration) does not reach the start() of the
\* same render, which passes the remaining it closed over) and pauses when
\* running; Back resets
TimerOnKeyDown(k) ==
    IF isActivationKey(k)
    THEN (IF ~timer.running THEN TimerStart(timer.remaining, timer.pendingStart)
          ELSE TimerPause)
    ELSE IF k = "Back" THEN TimerReset(timer.duration)
    ELSE UNCHANGED <<engineVars, intervalVars, callbackVars>>

\* a click on the Start button, shown while not running: onPlay, part_004:646-654
PlayClick ==
    /\ timer.mounted /\ ~timer.running
    /\ LET rem == IF timer.remaining <= 0 THEN timer.duration ELSE timer.remaining
       IN  IF ~timer.engine
           THEN /\ timer.pendingStart = <<>>
                /\ timer' = [timer EXCEPT !.remaining = rem, !.pendingStart = <<timer.remaining>>]
                /\ UNCHANGED <<engineVars, intervalVars, onTickCalls, lastTick, onCompleteCalls>>
           ELSE TimerResume(rem)
    /\ UNCHANGED <<now, maxLate, snapshot, focusVars, keyVars>>

\* the start() that onPlay deferred runs, part_004:650
RunPendingStart ==
    /\ timer.pendingStart # <<>>
    /\ TimerStart(timer.pendingStart[1], <<>>)
    /\ UNCHANGED <<now, maxLate, snapshot, focusVars, keyVars>>

\* a click on the Pause button, shown while running (onPause = pause)
PauseClick ==
    /\ timer.mounted /\ timer.running
    /\ TimerPause
    /\ UNCHANGED <<now, maxLate, snapshot, focusVars, keyVars>>

\* a click on the Reset button (onReset = reset)
ResetClick ==
    /\ timer.mounted
    /\ TimerReset(timer.duration)
    /\ UNCHANGED <<now, maxLate, snapshot, focusVars, keyVars>>

\* a click on a preset chip
PresetClick(s) ==
    /\ timer.mounted
    /\ TimerReset(s)
    /\ UNCHANGED <<now, maxLate, snapshot, focusVars, keyVars>>

\* ------------------------------------------------------------------ keydown dispatch
\* the router's onKeyDown, FocusManager.js:499-515: the delta it passes to moveFocus
RouterDelta(k) ==
    IF k = "ArrowRight" \/ k = "ArrowDown" THEN 1
    ELSE IF k = "ArrowLeft" \/ k = "ArrowUp" THEN -1 ELSE 0

\* whether the router's onKeyDown gets the event and calls moveFocus. Every
\* keydown listener here is attached to window in the capture phase
\* (FocusManager.js:517, useDpadNavigation.js:127), and stopPropagation() does
\* not keep the other listeners of the same target from running
RouterActs(k) == isArrow(k) /\ routerListener.listeners > 0

\* the currentId the router's moveFocus reads: its keydown effect has no
\* dependencies (FocusManager.js:496-532), so onKeyDown and the moveFocus it
\* calls are those of the first render
RouterReads == listenerCurrentId

\* openExercise, App.js:36-43, called while document.activeElement is active
\* closeExercise, App.js:45-58: the focus() it defers, if any
CloseRestores(el) == IF el # NoId THEN <<RestoreTimeout(el)>> ELSE <<>>

\* the modal's key effect, ExerciseModal.js:49-85: it adds its onKeyDown to
\* window, and its cleanup removes it
ModalEffectRun(n) == n + 1

\* (variant: the cleanup leaves the listener on window)
ModalEffectCleanupKeeps(n) == n

ModalEffectCleanup(n) == n - 1

\* the modal mounts under StrictMode (index.js:10): the effect runs, is cleaned
\* up and runs again
ModalEffectMount(n) == ModalEffectRun(ModalEffectCleanup(ModalEffectRun(n)))

\* App renders again with a new closeExercise: the effect, which depends on
\* onClose, is cleaned up and runs again
ModalEffectRerun(n) == ModalEffectRun(ModalEffectCleanup(n))

\* whether a window capture listener stops the propagation of an activation
\* key before it reaches the focused element: every mounted coordinator
\* (useDpadNavigation.js:106-108) and the WorkoutTimer (part_004:499-501) call
\* e.stopPropagation() on it
ActivationStopped ==
    \/ timer.mounted
    \/ \E c \in Coordinators : grids[c].mounted

\* (variant: the window listeners let activation keys through)
OnSelectCalledAlways(k) ==
    IF /\ isActivationKey(k)
       /\ activeElement \in Ids \cup {ModalDom[i].el : i \in {j \in 1..Len(ModalDom) : ModalDom[j].marked}}
    THEN activeElement
    ELSE NoId

\* the TVFocusable whose handleKeyDown calls onSelect on the key,
\* TVFocusable.js:101-126: the focused one, if the event gets to it; NoId if none
OnSelectCalled(k) ==
    IF /\ isActivationKey(k)
       /\ ~ActivationStopped
       /\ activeElement \in Ids \cup {ModalDom[i].el : i \in {j \in 1..Len(ModalDom) : ModalDom[j].marked}}
    THEN activeElement
    ELSE NoId

\* the onEnter calls of the Rows' coordinators on the key whose column has an
\* item (useDpadNavigation.js:106-113, TVFocusable.js:218-224)
RowsSelecting(k) ==
    {call \in GridCalls(grids, k) :
        /\ call.fn = "onEnter"
        /\ grids[call.grid].row
        /\ call.col < grids[call.grid].colCount}

\* one keydown event on window: every attached listener runs. The router's
\* listener was attached when the provider mounted, the modal's when the modal
\* mounted, so the router's moveFocus runs before the modal's trap
KeyEvent(e) ==
    LET k == NormalizeTVKey(e)
        open == selectedExercise # NoExercise
        focus == IF RouterActs(k)
                 THEN MoveFocus(registry, RouterReads, RouterDelta(k), currentId)
                 ELSE currentId
        \* node.focus() of moveFocus, FocusManager.js:487-491
        afterRouter == IF RouterActs(k)
                       THEN MoveFocus(registry, RouterReads, RouterDelta(k), activeElement)
                       ELSE activeElement
        afterTrap == IF open /\ isArrow(k)
                     THEN TrapArrow(collectFocusable(TRUE), k, afterRouter)
                     ELSE afterRouter
        \* every modal listener on window calls its onClose on a Back key
        closeCalls == IF isBackKey(k) THEN modalListeners ELSE 0
        closes == open /\ closeCalls > 0
        selecting == RowsSelecting(k)
    IN  /\ Len(timeouts) < MaxTimeouts
        /\ grids' = [c \in Coordinators |-> GridOnKeyDown(grids[c], k)]
        /\ currentId' = focus
        /\ evt' = [key |-> k, raw |-> e,
                   grids |-> {c \in Coordinators : GridActs(grids[c], k)},
                   router |-> RouterActs(k), closeCalls |-> closeCalls,
                   selects |-> OnSelectCalled(k)]
        /\ IF closes
           THEN \* the trap calls onClose = closeExercise; the modal unmounts
                /\ selectedExercise' = NoExercise
                /\ timeouts' = SelectSeq(timeouts, LAMBDA t : t.kind # "open")
                                  \o CloseRestores(lastFocusedRef)
                /\ registry' = DisposeAll(registry, ModalIds)
                /\ disposers' = SubSeq(disposers, 1, Len(disposers) - Len(ModalIds))
                /\ activeElement' = IF afterTrap \in ModalEls THEN Body ELSE afterTrap
                /\ modalListeners' = ModalEffectCleanup(modalListeners)
                /\ UNCHANGED lastFocusedRef
           ELSE IF selecting # {}
           THEN \* every selecting Row calls openExercise; the last call's item stays
                /\ \E call \in selecting :
                      selectedExercise' = [row |-> call.grid, col |-> call.col]
                /\ lastFocusedRef' = afterTrap
                /\ activeElement' = afterTrap
                /\ IF open
                   THEN /\ modalListeners' = ModalEffectRerun(modalListeners)
                        /\ UNCHANGED <<timeouts, registry, disposers>>
                   ELSE /\ modalListeners' = ModalEffectMount(modalListeners)
                        /\ timeouts' = Append(timeouts, OpenTimeout)
                        /\ registry' = RegisterAll(registry, ModalIds, Len(disposers) + 1)
                        /\ disposers' = disposers \o ModalIds
           ELSE /\ activeElement' = afterTrap
                /\ UNCHANGED <<selectedExercise, lastFocusedRef, timeouts, registry, disposers,
                               modalListeners>>
        /\ IF timer.mounted
           THEN TimerOnKeyDown(k)
           ELSE UNCHANGED <<engineVars, intervalVars, callbackVars>>
        /\ UNCHANGED <<listenerCurrentId, routerListener, initialFocusId, frames, domCalls,
                       now, maxLate, snapshot>>

\* the oldest requested setTimeout(..., 0) callback runs: the modal's open
\* effect (ExerciseModal.js:38-43) or the deferred el.focus() of closeExercise
\* (App.js:50-56)
RunTimeout ==
    /\ timeouts # <<>>
    /\ LET t == Head(timeouts)
           open == selectedExercise # NoExercise
           target == IF t.kind = "open" THEN OpenTarget(initialFocusId) ELSE t.el
       IN  activeElement' = FocusEl(target, activeElement, open)
    /\ timeouts' = Tail(timeouts)
    /\ UNCHANGED <<grids, evt, frames, domCalls, appVars, focusVars, timerVars>>

\* the DOM calls of one animation frame callback of setFocus: the element and
\* the calls in the order issued
NoCalls == [el |-> NoId, calls |-> <<>>]

\* the oldest requested animation frame callback runs, FocusManager.js:418-440:
\* scrollIntoView with behavior smooth, without it when that throws, then
\* focus(); each call may throw in the host, and every throw is caught
RunFrame ==
    /\ frames # <<>>
    /\ \E smoothThrows \in BOOLEAN : \E plainThrows \in BOOLEAN : \E focusThrows \in BOOLEAN :
          LET el == Head(frames)
              scroll == IF smoothThrows
                        THEN <<"scrollIntoView smooth", "scrollIntoView">>
                        ELSE <<"scrollIntoView smooth">>
          IN  /\ smoothThrows \/ ~plainThrows
              /\ domCalls' = [el |-> el, calls |-> Append(scroll, "focus")]
              /\ activeElement' = IF focusThrows
                                  THEN activeElement
                                  ELSE FocusEl(el, activeElement, selectedExercise # NoExercise)
    /\ frames' = Tail(frames)
    /\ UNCHANGED <<grids, evt, timeouts, appVars, focusVars, timerVars>>

NoEvent == [key |-> "", raw |-> [key |-> "", code |-> ""], grids |-> {}, router |-> FALSE,
            closeCalls |-> 0, selects |-> NoId]

\* FocusManagerProvider mounted with initialFocusId = f, FocusManager.js:405-409, 455-460
ProviderMounted(f) ==
    /\ currentId = f
    /\ listenerCurrentId = f
    /\ routerListener = EffectRun(NoListener)
    /\ evt = NoEvent
    /\ frames = <<>>
    /\ domCalls = NoCalls

\* App before any exercise is selected, App.js:22-23, nothing focused, with
\* the initialFocusId it passes to the modal (App.js:154)
ModalClosed(id) ==
    /\ activeElement = Body
    /\ timeouts = <<>>
    /\ selectedExercise = NoExercise
    /\ lastFocusedRef = NoId
    /\ initialFocusId = id
    /\ modalListeners = 0

AppFocusId == "exercise-close"

\* no focusable registered yet, no coordinator mounted
PageEmpty ==
    /\ registry = <<>>
    /\ disposers = <<>>
    /\ grids = [c \in Coordinators |-> Unmounted]

\* the engine the focus specifications carry along, untouched
EngineIdle == EngineCreated(1, DefaultTickRateMs)

\* ---- the engine under any interleaving of wake-ups, pause, resume, cancel
Init ==
    /\ \E d \in 1..MaxDur : \E r \in {DefaultTickRateMs, TimerTickRateMs} : EngineCreated(d, r)
    /\ ProviderMounted(NoId)
    /\ PageEmpty
    /\ ModalClosed(AppFocusId)
    /\ TimerLateness(Unbounded)

Next == Advance \/ WakeUp \/ Pause \/ Resume \/ Cancel

Spec == Init /\ [][Next]_vars

\* ---- the same engine with a caller that also reads getState() at any time
InitSnapshot ==
    /\ \E d \in 1..MaxDur : EngineCreated(d, DefaultTickRateMs)
    /\ ProviderMounted(NoId)
    /\ PageEmpty
    /\ ModalClosed(AppFocusId)
    /\ TimerLateness(Unbounded)

NextSnapshot == Advance \/ WakeUp \/ Pause \/ Resume \/ Cancel \/ GetState

SpecSnapshot == InitSnapshot /\ [][NextSnapshot]_vars

\* ---- the uninterrupted countdown: never paused, never cancelled; setTimeout
\* fires a due timer eventually and the clock keeps running
InitRun ==
    /\ \E d \in 1..ScenarioDur : \E r \in {DefaultTickRateMs, TimerTickRateMs} : EngineCreated(d, r)
    /\ ProviderMounted(NoId)
    /\ PageEmpty
    /\ ModalClosed(AppFocusId)
    /\ TimerLateness(Unbounded)

NextRun == Advance \/ WakeUp

SpecRun == InitRun /\ [][NextRun]_vars /\ WF_vars(WakeUp) /\ WF_vars(Advance)

\* ---- the provider with focusables registering and unregistering, and key
\* events; no coordinator is mounted
InitFocus ==
    /\ EngineIdle
    /\ \E f \in Ids \cup {NoId} : ProviderMounted(f)
    /\ PageEmpty
    /\ ModalClosed(AppFocusId)
    /\ TimerLateness(Unbounded)

NextFocus ==
    \/ \E id \in Ids : \E node \in BOOLEAN : Register(id, node)
    \/ \E t \in 1..MaxRegisters : Dispose(t)
    \/ \E e \in KeyEvents : KeyEvent(e)

SpecFocus == InitFocus /\ [][NextFocus]_vars

\* ---- the provider's interface called by its consumers: register, the
\* disposers, setFocus with any id, and the animation frames setFocus requests
InitRegistry ==
    /\ EngineIdle
    /\ ProviderMounted(NoId)
    /\ PageEmpty
    /\ ModalClosed(AppFocusId)
    /\ TimerLateness(Unbounded)

NextRegistry ==
    \/ \E id \in Ids : \E node \in BOOLEAN : Register(id, node)
    \/ \E t \in 1..MaxRegisters : Dispose(t)
    \/ \E id \in Ids : SetFocus(id)
    \/ RunFrame

SpecRegistry == InitRegistry /\ [][NextRegistry]_vars

\* ---- the page once its three focusables are registered and mounted, with
\* coordinators mounting and unmounting, and key events
PageRegistered ==
    /\ registry = <<[id |-> "a", token |-> 1, node |-> TRUE],
                    [id |-> "b", token |-> 2, node |-> TRUE],
                    [id |-> "c", token |-> 3, node |-> TRUE]>>
    /\ disposers = <<"a", "b", "c">>
    /\ grids = [c \in Coordinators |-> Unmounted]

InitKeys ==
    /\ EngineIdle
    /\ \E f \in Ids \cup {NoId} : ProviderMounted(f)
    /\ PageRegistered
    /\ ModalClosed(AppFocusId)
    /\ TimerLateness(Unbounded)

NextKeys ==
    \/ \E c \in Coordinators : \E rows \in 1..MaxRows : \E cols \in 1..MaxCols :
          \E loop \in BOOLEAN : \E back \in BOOLEAN : MountGrid(c, rows, cols, loop, back)
    \/ \E c \in Coordinators : UnmountGrid(c)
    \/ \E e \in KeyEvents : KeyEvent(e)

SpecKeys == InitKeys /\ [][NextKeys]_vars

\* ---- one grid coordinator on an otherwise empty page, with every option and
\* every call of its interface, degenerate and out-of-range values included
GridUnderTest == 1
GridCounts == 0..GridMaxCount
GridIndices == 0..GridMaxCount

InitGrid ==
    /\ EngineIdle
    /\ ProviderMounted(NoId)
    /\ PageEmpty
    /\ ModalClosed(AppFocusId)
    /\ TimerLateness(Unbounded)

NextGrid ==
    \/ \E rows \in GridCounts : \E cols \in GridCounts : \E loop \in BOOLEAN :
          \E back \in BOOLEAN : \E r \in GridIndices : \E c \in GridIndices :
             MountGridAt(GridUnderTest, rows, cols, loop, back, r, c)
    \/ UnmountGrid(GridUnderTest)
    \/ \E r \in GridIndices : \E c \in GridIndices : CallSetFocused(GridUnderTest, r, c)
    \/ \E rows \in GridCounts : \E cols \in GridCounts : Rerender(GridUnderTest, rows, cols)
    \/ \E e \in KeyEvents : KeyEvent(e)

SpecGrid == InitGrid /\ [][NextGrid]_vars

\* ---- one grid coordinator given rowCount / colCount of zero and below
DegenerateCounts == (0 - MaxNegCount)..MaxCols

InitDegenerate ==
    /\ EngineIdle
    /\ ProviderMounted(NoId)
    /\ PageEmpty
    /\ ModalClosed(AppFocusId)
    /\ TimerLateness(Unbounded)

\* the hook mounts with a degenerate axis
MountDegenerate(rows, cols, loop, r, c) ==
    /\ rows <= 0 \/ cols <= 0
    /\ MountGridAt(GridUnderTest, rows, cols, loop, FALSE, r, c)

NextDegenerate ==
    \/ \E rows \in DegenerateCounts : \E cols \in DegenerateCounts : \E loop \in BOOLEAN :
          \E r \in 0..MaxRows : \E c \in 0..MaxCols : MountDegenerate(rows, cols, loop, r, c)
    \/ UnmountGrid(GridUnderTest)
    \/ \E e \in KeyEvents : KeyEvent(e)

SpecDegenerate == InitDegenerate /\ [][NextDegenerate]_vars

\* ---- the key normalizer applied to every event of its table: key events on a
\* page with nothing registered and nothing mounted
InitKeyMap ==
    /\ EngineIdle
    /\ ProviderMounted(NoId)
    /\ PageEmpty
    /\ ModalClosed(AppFocusId)
    /\ TimerLateness(Unbounded)

NextKeyMap == \E e \in AllKeyEvents : KeyEvent(e)

SpecKeyMap == InitKeyMap /\ [][NextKeyMap]_vars

\* ---- the page with its Rows mounted (App.js:123-147), where a selected
\* exercise opens the modal, Back closes it, and the deferred focus calls run
\* a Row's coordinator, TVFocusable.js:212-225: one row of n items, no loop, no
\* onBack, initialCol = initialIndex = 0
RowMounted(n) ==
    [mounted |-> TRUE, rowCount |-> 1, colCount |-> n, loop |-> FALSE,
     onBack |-> FALSE, row |-> TRUE, focusedRow |-> 0, focusedCol |-> 0,
     listener |-> EffectRun(NoListener), seenRow |-> 0, seenCol |-> 0]

InitModal ==
    /\ EngineIdle
    /\ ProviderMounted(NoId)
    /\ registry = <<[id |-> "a", token |-> 1, node |-> TRUE],
                    [id |-> "b", token |-> 2, node |-> TRUE],
                    [id |-> "c", token |-> 3, node |-> TRUE]>>
    /\ disposers = <<"a", "b", "c">>
    /\ grids = [c \in Coordinators |-> RowMounted(MaxCols)]
    /\ \E id \in InitialFocusIds : ModalClosed(id)
    /\ TimerLateness(Unbounded)

NextModal ==
    \/ \E e \in KeyEvents \cup BackKeyEvents : KeyEvent(e)
    \/ RunTimeout

SpecModal == InitModal /\ [][NextModal]_vars

\* ---- the drift-safe interval under a host whose timers are late by at most
\* maxLate ms, for bounds below and not below the interval
LateBounds == {i * DriftQuantum : i \in 0..MaxLateSteps}

InitDrift ==
    /\ \E d \in 1..MaxDur : \E r \in {DefaultTickRateMs, TimerTickRateMs} : EngineCreated(d, r)
    /\ ProviderMounted(NoId)
    /\ PageEmpty
    /\ ModalClosed(AppFocusId)
    /\ \E l \in LateBounds : TimerLateness(l)

NextDrift == AdvanceLate \/ WakeUp

SpecDrift == InitDrift /\ [][NextDrift]_vars

\* ---- the keydown effects of the provider and of one coordinator through
\* mounts, cleanups, re-mounts and the re-runs that renders cause
InitListeners ==
    /\ EngineIdle
    /\ ProviderMounted(NoId)
    /\ PageRegistered
    /\ ModalClosed(AppFocusId)
    /\ TimerLateness(Unbounded)

NextListeners ==
    \/ ProviderEffectCleanup
    \/ ProviderEffectMount
    \/ \E rows \in 1..MaxRows : \E cols \in 1..MaxCols : \E loop \in BOOLEAN :
          MountGrid(GridUnderTest, rows, cols, loop, FALSE)
    \/ UnmountGrid(GridUnderTest)
    \/ \E rows \in 1..MaxRows : \E cols \in 1..MaxCols : Rerender(GridUnderTest, rows, cols)
    \/ \E e \in KeyEvents : KeyEvent(e)

SpecListeners == InitListeners /\ [][NextListeners]_vars

\* ---- a WorkoutTimer on an otherwise empty page: its keys and buttons, the
\* engines it starts and their wake-ups
\* the component mounted with the seconds prop s, part_004:410-416; no engine yet
TimerMounted(s) ==
    /\ now = 0
    /\ durationSeconds = 0
    /\ tickRateMs = TimerTickRateMs
    /\ endTime = 0
    /\ paused = FALSE
    /\ pauseStartedAt = 0
    /\ accumulatedPause = 0
    /\ completed = FALSE
    /\ active = FALSE
    /\ start = 0
    /\ count = 0
    /\ snapshot = NoSnapshot
    /\ timerPending = FALSE
    /\ timerDue = 0
    /\ onTickCalls = 0
    /\ lastTick = 0
    /\ onCompleteCalls = 0
    /\ timer = [mounted |-> TRUE, duration |-> Max(1, s), remaining |-> Max(1, s),
                running |-> FALSE, completed |-> FALSE, engine |-> FALSE,
                pendingStart |-> <<>>, orphans |-> 0]

\* the keys the component's listener tells apart: activation, Back, any other
TimerKeyEvents == {e \in KeyEvents : e.key \in {"OK", "Escape", "X"}}

InitTimer ==
    /\ \E s \in 0..MaxTimerDur : TimerMounted(s)
    /\ ProviderMounted(NoId)
    /\ PageEmpty
    /\ ModalClosed(AppFocusId)
    /\ TimerLateness(Unbounded)

NextTimer ==
    \/ Advance
    \/ WakeUp
    \/ \E e \in TimerKeyEvents : KeyEvent(e)
    \/ PlayClick
    \/ RunPendingStart
    \/ PauseClick
    \/ ResetClick
    \/ \E s \in 1..MaxTimerDur : PresetClick(s)

SpecTimer == InitTimer /\ [][NextTimer]_vars

\* ---- the same WorkoutTimer with the longest seconds prop and the one preset
\* that keeps its duration, under the same clicks and keys
InitTimerOps ==
    /\ TimerMounted(MaxTimerDur)
    /\ ProviderMounted(NoId)
    /\ PageEmpty
    /\ ModalClosed(AppFocusId)
    /\ TimerLateness(Unbounded)

NextTimerOps ==
    \/ Advance
    \/ WakeUp
    \/ \E e \in {t \in TimerKeyEvents : NormalizeTVKey(t) \in {"Enter", "Back"}} : KeyEvent(e)
    \/ PlayClick
    \/ RunPendingStart
    \/ PauseClick
    \/ ResetClick
    \/ PresetClick(MaxTimerDur)

SpecTimerOps == InitTimerOps /\ [][NextTimerOps]_vars

\* ================================================================== claims
\* getState().remaining, time.js:125-130
Remaining == ComputeRemaining

\* C1: over pause(), resume() and clock advances, getState().remaining never
\* increases from one observation to the next; it is constant from pause() to
\* the matching resume(), and the value right after resume() is the paused value.
C1_RemainingNeverIncreases ==
    [][ /\ Remaining' <= Remaining
        /\ (paused \/ paused') => Remaining' = Remaining ]_vars

\* a resumed engine whose pause lasted some time and that has counted down since
C1_Witness ==
    /\ ~paused
    /\ accumulatedPause > 0
    /\ Remaining > 0
    /\ Remaining < durationSeconds

C6_CancelIdempotent ==
    /\ [][ Cancel => ~active' ]_vars
    /\ [][ ~active => (~active' /\ UNCHANGED callbackVars) ]_vars
    /\ [][ (~active /\ Cancel) => UNCHANGED vars ]_vars

\* cancelled before completion: the pending wake-up has fired without effect and
\* the deadline has passed with no onComplete
C6_Witness ==
    /\ ~active
    /\ ~completed
    /\ count > 0
    /\ ~timerPending
    /\ Remaining = 0
    /\ onCompleteCalls = 0

\* C3: an uninterrupted countdown of D seconds: once the clock has advanced by
\* D*1000 ms, the next wake-up completes it: onComplete fired once, completed set.
C3_EventuallyCompletes ==
    /\ (now >= durationSeconds * MsPerSecond) ~> (completed /\ onCompleteCalls = 1)
    /\ [][ (WakeUp /\ now >= durationSeconds * MsPerSecond)
             => (completed' /\ onCompleteCalls' = 1) ]_vars

C3_Witness ==
    /\ durationSeconds = ScenarioDur
    /\ completed
    /\ onCompleteCalls = 1

\* C4 as stated: for countdown(5, ...) at 250 ms, every onTick after the priming
\* one delivers a strictly smaller value than the one before, and the last is 0.
C4_StrictlyDecreasing ==
    /\ [][ (durationSeconds = ScenarioDur /\ tickRateMs = DefaultTickRateMs
            /\ onTickCalls' # onTickCalls) => lastTick' < lastTick ]_vars
    /\ []((durationSeconds = ScenarioDur /\ tickRateMs = DefaultTickRateMs /\ completed)
            => lastTick = 0)

\* C4 as amended: the delivered values never increase, stay within 0..5, and the
\* last one, delivered by the completing tick, is 0.
C4_NonIncreasingEndsAtZero ==
    /\ [][ (durationSeconds = ScenarioDur /\ tickRateMs = DefaultTickRateMs
            /\ onTickCalls' # onTickCalls) => lastTick' <= lastTick ]_vars
    /\ []((durationSeconds = ScenarioDur /\ tickRateMs = DefaultTickRateMs)
            => (lastTick \in 0..ScenarioDur /\ (completed => lastTick = 0)))

\* the 5 s countdown completed after more onTick calls than there are values
C4_Witness ==
    /\ durationSeconds = ScenarioDur
    /\ tickRateMs = DefaultTickRateMs
    /\ completed
    /\ lastTick = 0
    /\ onTickCalls > ScenarioDur + 1

\* the keydown events whose normalized key is an arrow
ArrowEvents == {e \in KeyEvents : isArrow(NormalizeTVKey(e))}

\* the id at 0-based index i of the registry's insertion order
IdAt(i) == registry[i + 1].id

\* C5 as stated: a call of the disposer returned by the t-th register call
\* removes the entry that call created and nothing else; once that entry is gone
\* (disposed before, or replaced by a later register of the same id) it changes
\* nothing.
C5_DisposerRemovesOnlyItsEntry ==
    [][ \A t \in 1..MaxRegisters :
          Dispose(t) => registry' = SelectSeq(registry, LAMBDA en : en.token # t) ]_vars

\* C7 as stated: an arrow key's moveFocus(delta) on N >= 1 entries leaves
\* getFocus() on the entry at clamp(index(currentId) + delta, 0, N-1), an
\* unmatched currentId counting as index 0; with N = 0 it changes nothing.
C7_MoveFocusFromCurrentId ==
    [][ \A e \in ArrowEvents :
          KeyEvent(e) =>
            currentId' = IF Len(registry) = 0
                         THEN currentId
                         ELSE IdAt(NextIndex(registry, currentId,
                                             RouterDelta(NormalizeTVKey(e)))) ]_vars

\* C8 as stated: with every target mounted and no coordinator mounted, an arrow
\* key moves currentId from the entry at index i to the entry at index
\* min(i+1, N-1) (ArrowRight/ArrowDown) or max(i-1, 0) (ArrowLeft/ArrowUp).
C8_ArrowStepsFromPreviousFocus ==
    [][ \A e \in ArrowEvents :
          ( /\ KeyEvent(e)
            /\ \A c \in Coordinators : ~grids[c].mounted
            /\ \A i \in 1..Len(registry) : registry[i].node
            /\ FindIndex(registry, currentId) >= 0 )
          => FindIndex(registry, currentId') =
               Clamp(FindIndex(registry, currentId) + RouterDelta(NormalizeTVKey(e)),
                     0, Len(registry) - 1) ]_vars

\* C9 as stated: at most one listener acts on a key event.
C9_OneHandlerPerEvent ==
    Cardinality(evt.grids) + (IF evt.router THEN 1 ELSE 0) <= 1

\* C10 as stated: an arrow key handled by a mounted coordinator does not reach
\* the fallback router: moveFocus is not called and currentId is unchanged.
C10_CoordinatorPreemptsRouter ==
    [][ \A e \in ArrowEvents :
          (KeyEvent(e) /\ \E c \in Coordinators : grids[c].mounted)
          => (~evt'.router /\ currentId' = currentId) ]_vars

\* the modal is mounted
ModalOpen == selectedExercise # NoExercise

\* the elements of the focusable set collected inside the modal container
CollectedEls ==
    LET f == collectFocusable(ModalOpen) IN {f[i].el : i \in 1..Len(f)}

C12_CloseRestoresFocusAtOpen ==
    /\ [][ (~ModalOpen /\ ModalOpen') => lastFocusedRef' = activeElement ]_vars
    /\ [][ (ModalOpen /\ ModalOpen') => lastFocusedRef' = lastFocusedRef ]_vars
    /\ [][ (ModalOpen /\ ~ModalOpen' /\ lastFocusedRef # NoId) =>
             /\ timeouts' # <<>>
             /\ timeouts'[Len(timeouts')] = RestoreTimeout(lastFocusedRef) ]_vars
    /\ [][ (RunTimeout /\ Head(timeouts).kind = "restore" /\ Head(timeouts).el \in Ids) =>
             activeElement' = Head(timeouts).el ]_vars

\* C13: when the modal's open effect runs, focus goes to the collected
\* focusable element whose focus id is initialFocusId if there is one, and to
\* the first collected element otherwise.
C13_OpenFocusesInitialOrFirst ==
    [][ (RunTimeout /\ Head(timeouts).kind = "open") =>
          LET f == collectFocusable(TRUE)
              match == {i \in 1..Len(f) : f[i].focusId = initialFocusId}
          IN  /\ ModalOpen
              /\ Len(f) > 0
              /\ activeElement' = IF match # {}
                                  THEN f[CHOOSE i \in match : \A j \in match : i <= j].el
                                  ELSE f[1].el ]_vars

\* the modal opened with initialFocusId naming a control that is not the first:
\* the open effect has run and that control holds the focus
C13_Witness ==
    /\ ModalOpen
    /\ timeouts = <<>>
    /\ initialFocusId = "modal-preset-45"
    /\ activeElement = "modal-preset-45"
    /\ evt.key = "Enter"

\* the coordinator of SpecGrid
Grid == grids[GridUnderTest]

\* the index an arrow key leads to on an axis of count n, as stated: one step,
\* and at the edge the boundary without loop, the opposite end with loop
StepOnAxis(i, d, n, loop) ==
    IF i + d \in 0..(n - 1) THEN i + d
    ELSE IF loop THEN (IF d < 0 THEN n - 1 ELSE 0)
    ELSE i

\* C14: for a coordinator with rowCount, colCount >= 1 whose focused indices are
\* in range, an arrow key moves the index of its axis by one inside the range, and
\* at the edge leaves it at the boundary (loop = false) or wraps it to the
\* opposite end (loop = true).
C14_ArrowClampsOrWraps ==
    [][ \A e \in ArrowEvents :
          ( /\ Grid.mounted
            /\ Grid.rowCount >= 1 /\ Grid.colCount >= 1
            /\ Grid.focusedRow \in 0..(Grid.rowCount - 1)
            /\ Grid.focusedCol \in 0..(Grid.colCount - 1)
            /\ KeyEvent(e) )
          => LET k == NormalizeTVKey(e) IN
             /\ k = "ArrowUp" => Grid'.focusedRow =
                    StepOnAxis(Grid.focusedRow, -1, Grid.rowCount, Grid.loop)
             /\ k = "ArrowDown" => Grid'.focusedRow =
                    StepOnAxis(Grid.focusedRow, 1, Grid.rowCount, Grid.loop)
             /\ k = "ArrowLeft" => Grid'.focusedCol =
                    StepOnAxis(Grid.focusedCol, -1, Grid.colCount, Grid.loop)
             /\ k = "ArrowRight" => Grid'.focusedCol =
                    StepOnAxis(Grid.focusedCol, 1, Grid.colCount, Grid.loop) ]_vars

\* rowCount = 3, colCount = 1, loop = true: ArrowUp has just wrapped row 0 to row 2
C14_Witness ==
    /\ Grid.mounted
    /\ Grid.rowCount = 3 /\ Grid.colCount = 1
    /\ Grid.loop
    /\ evt.key = "ArrowUp"
    /\ GridUnderTest \in evt.grids
    /\ Grid.focusedRow = 2
    /\ Grid.focusedCol = 0

\* C15 as stated: the focused indices of a mounted coordinator are always within
\* 0 <= focusedRow < max(rowCount, 1) and 0 <= focusedCol < max(colCount, 1).
C15_FocusedIndicesInRange ==
    Grid.mounted =>
        /\ 0 <= Grid.focusedRow /\ Grid.focusedRow < Max(Grid.rowCount, 1)
        /\ 0 <= Grid.focusedCol /\ Grid.focusedCol < Max(Grid.colCount, 1)

\* the canonical name the stated table gives an event, its rows taken in the
\* order stated
TableName(e) ==
    IF e.key \in {"Up", "ArrowUp"} THEN "ArrowUp"
    ELSE IF e.key \in {"Down", "ArrowDown"} THEN "ArrowDown"
    ELSE IF e.key \in {"Left", "ArrowLeft"} THEN "ArrowLeft"
    ELSE IF e.key \in {"Right", "ArrowRight"} THEN "ArrowRight"
    ELSE IF e.key \in {"Enter", "OK"} \/ e.code \in {"Enter", "NumpadEnter"} THEN "Enter"
    ELSE IF e.key \in {"Back", "Escape", "Esc", "Backspace"} THEN "Back"
    ELSE IF e.key \in {" ", "Spacebar", "Space"} THEN "Space"
    ELSE e.key

C17_PauseFrame ==
    /\ [][ Pause =>
             /\ (paused \/ completed) => UNCHANGED vars
             /\ ~(paused \/ completed) =>
                   /\ paused' /\ pauseStartedAt' = now
                   /\ UNCHANGED <<now, maxLate, snapshot, durationSeconds, tickRateMs, endTime, accumulatedPause,
                                  completed, intervalVars, callbackVars, focusVars, keyVars>> ]_vars
    /\ [][ pauseStartedAt' # pauseStartedAt =>
             (~paused /\ ~completed /\ paused' /\ pauseStartedAt' = now) ]_vars

\* an engine that has been paused for some time, some time after its creation
C17_Witness ==
    /\ paused
    /\ ~completed
    /\ pauseStartedAt > 0
    /\ now > pauseStartedAt

\* the time the engine has spent paused since its creation
PausedTotal == accumulatedPause + (IF paused THEN now - pauseStartedAt ELSE 0)

\* C18: resume() on an engine that is not paused or is completed changes
\* nothing; otherwise it adds exactly now - pauseStartedAt to accumulatedPause
\* and clears paused; nothing else changes accumulatedPause, and the countdown
\* does not complete before durationSeconds * 1000 ms plus the time spent paused.
C18_ResumeFrame ==
    /\ [][ Resume =>
             /\ (~paused \/ completed) => UNCHANGED vars
             /\ (paused /\ ~completed) =>
                   /\ ~paused'
                   /\ accumulatedPause' = accumulatedPause + (now - pauseStartedAt)
                   /\ UNCHANGED <<now, maxLate, snapshot, durationSeconds, tickRateMs, endTime, pauseStartedAt,
                                  completed, intervalVars, callbackVars, focusVars, keyVars>> ]_vars
    /\ [][ accumulatedPause' # accumulatedPause => (paused /\ ~paused') ]_vars
    /\ [][ PausedTotal' - PausedTotal = (IF paused /\ paused' THEN now' - now ELSE 0) ]_vars
    /\ [][ (~completed /\ completed') =>
             now >= start + durationSeconds * MsPerSecond + PausedTotal ]_vars

\* completed after pausing for two clock steps or more, later than the unpaused deadline
C18_Witness ==
    /\ completed
    /\ ~paused
    /\ accumulatedPause >= 2 * Quantum
    /\ now >= durationSeconds * MsPerSecond + accumulatedPause

\* the milliseconds left to the pause-adjusted deadline
RemainMs ==
    Max(0, endTime + accumulatedPause - (IF paused THEN pauseStartedAt ELSE now))

\* C19: getState().remaining is the number of whole or started seconds left to
\* the pause-adjusted deadline: an integer in 0..durationSeconds, the least n
\* with n * 1000 >= the milliseconds left, hence 0 only when the deadline has
\* been reached.
C19_RemainingIsCeilOfMsLeft ==
    /\ Remaining \in 0..durationSeconds
    /\ Remaining * MsPerSecond >= RemainMs
    /\ (Remaining - 1) * MsPerSecond < RemainMs
    /\ Remaining = 0 <=> (IF paused THEN pauseStartedAt ELSE now) >= endTime + accumulatedPause

\* paused half-way through a second, read after the unpaused deadline has passed
C19_Witness ==
    /\ paused
    /\ RemainMs = Quantum
    /\ Remaining = 1
    /\ now >= endTime

\* C20 as stated: whenever getState().remaining is 0, getState().completed is true.
C20_ZeroObservedWithCompleted ==
    Remaining = 0 => completed

\* C20 as amended: completed never returns to false; it is set by the first
\* tick that computes a remaining of 0; and whenever completed is true
\* remaining is 0.
C20_CompletedImpliesZero ==
    /\ [][ completed => completed' ]_vars
    /\ [](completed => Remaining = 0)
    /\ [][ (~completed /\ completed') =>
             (onTickCalls' = onTickCalls + 1 /\ lastTick' = 0 /\ Remaining' = 0) ]_vars
    /\ [][ (onTickCalls' # onTickCalls /\ lastTick' = 0) => (~completed /\ completed') ]_vars

\* completed by a wake-up that came after the deadline had already passed
C20_Witness ==
    /\ completed
    /\ Remaining = 0
    /\ lastTick = 0
    /\ now > endTime + accumulatedPause

\* C21: onTick was invoked once by the time countdown() returned, with the full
\* duration; afterwards it is invoked exactly once by each wake-up of the
\* running interval that finds the engine neither paused nor completed, with the
\* remaining time of that moment, and by nothing else; no onTick is invoked
\* while the engine is paused.
C21_OnTickPerLiveWakeUp ==
    /\ [](count = 0 => (onTickCalls = 1 /\ lastTick = durationSeconds))
    /\ [](onTickCalls >= 1 /\ onTickCalls <= 1 + count)
    /\ [][ onTickCalls' # onTickCalls =>
             /\ WakeUp
             /\ active /\ ~paused /\ ~completed
             /\ onTickCalls' = onTickCalls + 1
             /\ lastTick' = Remaining ]_vars
    /\ [][ (WakeUp /\ active /\ ~paused /\ ~completed) =>
             onTickCalls' = onTickCalls + 1 ]_vars
    /\ [][ (paused \/ completed) => onTickCalls' = onTickCalls ]_vars

\* resumed after a pause during which at least two wake-ups came and went
\* without an onTick, and ticking again since
C21_Witness ==
    /\ ~paused
    /\ ~completed
    /\ accumulatedPause > 0
    /\ onTickCalls >= 3
    /\ count >= onTickCalls + 1
    /\ lastTick < durationSeconds

\* the target of the k-th tick of the interval
Target(k) == start + k * tickRateMs

\* C22: each wake-up of the interval requests the next one for
\* now + max(0, interval - drift), drift = now - target, target = start +
\* k * interval, that is for the later of now and the next target; and when the
\* host fires every wake-up at most L < interval ms after its requested time,
\* every request falls on its target and the k-th tick fires no later than
\* start + k * interval + L.
C22_LatenessDoesNotAccumulate ==
    /\ [][ (WakeUp /\ active) =>
             /\ count' = count + 1
             /\ timerDue' = Max(now, Target(count' + 1)) ]_vars
    /\ [][ (WakeUp /\ active /\ maxLate < tickRateMs) =>
             now <= Target(count + 1) + maxLate ]_vars
    /\ []((timerPending /\ maxLate < tickRateMs) => timerDue = Target(count + 1))

\* the fourth tick or a later one has fired as late as the host allows, 150 ms
\* after its target, and the next wake-up is requested for the next target
C22_Witness ==
    /\ maxLate = 3 * DriftQuantum
    /\ maxLate < tickRateMs
    /\ count >= 4
    /\ active
    /\ now = Target(count) + maxLate
    /\ timerPending
    /\ timerDue = Target(count + 1)

\* C23: setFocus(id) makes id the current id whether an entry is registered
\* under it or not, leaves the registry as it is and calls nothing on the DOM
\* itself; it requests an animation frame for the entry's node exactly when the
\* entry exists and holds a node. That frame issues scrollIntoView (smooth, and
\* once more without the option when that throws) and then focus() on the node;
\* whichever of the calls throw, the frame ends normally and the current id and
\* the registry stay as they were.
C23_SetFocusThenScrollFocus ==
    /\ [][ \A id \in Ids :
             SetFocus(id) =>
               /\ currentId' = id
               /\ registry' = registry
               /\ activeElement' = activeElement /\ domCalls' = domCalls
               /\ frames' = IF \E i \in 1..Len(registry) : registry[i].id = id /\ registry[i].node
                             THEN Append(frames, id) ELSE frames ]_vars
    /\ [][ RunFrame =>
             /\ currentId' = currentId
             /\ registry' = registry
             /\ domCalls'.el = Head(frames)
             /\ LET calls == domCalls'.calls
                IN  /\ Len(calls) \in {2, 3}
                    /\ calls[1] = "scrollIntoView smooth"
                    /\ calls[Len(calls)] = "focus"
                    /\ Len(calls) = 3 => calls[2] = "scrollIntoView"
             /\ activeElement' \in {activeElement, Head(frames)} ]_vars
    /\ [][ frames' # frames => (RunFrame \/ \E id \in Ids : SetFocus(id)) ]_vars
    /\ [][ currentId' # currentId =>
             /\ registry' = registry
             /\ activeElement' = activeElement /\ domCalls' = domCalls
             /\ frames' # frames =>
                   /\ frames' = Append(frames, currentId')
                   /\ \E i \in 1..Len(registry) :
                         registry[i].id = currentId' /\ registry[i].node ]_vars
    /\ [][ (domCalls' # domCalls \/ activeElement' # activeElement) =>
             /\ frames # <<>> /\ frames' = Tail(frames)
             /\ currentId' = currentId
             /\ registry' = registry ]_vars

\* a frame of setFocus has run in which the smooth scroll threw and focus()
\* threw: the fallback scroll was issued, the focus is where it was, and the id
\* is current; a later setFocus of an id that is not registered made that id
\* current without a frame
C23_Witness ==
    /\ domCalls.el \in Ids
    /\ domCalls.calls = <<"scrollIntoView smooth", "scrollIntoView", "focus">>
    /\ activeElement = Body
    /\ frames = <<>>
    /\ currentId \in Ids
    /\ currentId # domCalls.el
    /\ \A i \in 1..Len(registry) : registry[i].id # currentId

\* the ids of the registry in traversal order (getOrderedEntries, FocusManager.js:463)
OrderedIds == [i \in 1..Len(registry) |-> registry[i].id]

\* C24: the registry never holds two entries with one id, and its traversal
\* order is insertion order: a register of an id already present puts the new
\* entry at the position of the old one and moves nothing, a register of a new
\* id appends it, and a disposer only takes an entry out, leaving the others in
\* their order.
C24_OneEntryPerIdInInsertionOrder ==
    /\ [](\A i, j \in 1..Len(registry) : registry[i].id = registry[j].id => i = j)
    /\ [][ \A id \in Ids : \A node \in BOOLEAN :
             Register(id, node) =>
               LET entry == [id |-> id, token |-> Len(disposers) + 1, node |-> node]
               IN  IF \E i \in 1..Len(registry) : registry[i].id = id
                   THEN /\ OrderedIds' = OrderedIds
                        /\ \A i \in 1..Len(registry) :
                              registry'[i] = IF registry[i].id = id THEN entry ELSE registry[i]
                   ELSE registry' = Append(registry, entry) ]_vars
    /\ [][ \/ OrderedIds' = OrderedIds
           \/ \E id \in Ids :
                 /\ \A i \in 1..Len(registry) : registry[i].id # id
                 /\ OrderedIds' = Append(OrderedIds, id)
           \/ \E id \in Ids : registry' = SelectSeq(registry, LAMBDA en : en.id # id) ]_vars

\* the first entry was registered again after the second one was added and
\* kept its place in front of it
C24_Witness ==
    /\ Len(registry) >= 2
    /\ registry[1].token > registry[2].token

\* an instance has at most one listener on window and its flag tells whether it has one
OneListener(l) ==
    /\ l.listeners \in {0, 1}
    /\ l.attached <=> l.listeners = 1

\* C25: through every sequence of effect runs and cleanups (mount, unmount,
\* re-mount, and the re-run after each render that changed the handler) the
\* provider and the coordinator each have at most one keydown listener on
\* window, the attached flag is true exactly when the listener is there, and
\* the listener is there exactly while the effect is mounted.
C25_AtMostOneListener ==
    /\ OneListener(routerListener)
    /\ routerListener.live <=> routerListener.listeners = 1
    /\ \A c \in Coordinators :
          /\ OneListener(grids[c].listener)
          /\ grids[c].mounted <=> grids[c].listener.listeners = 1
          /\ grids[c].mounted <=> grids[c].listener.live

\* the provider's effect was cleaned up and run again after the focus had
\* moved, and the coordinator's effect has re-run after an arrow key changed
\* its handler: one listener each
C25_Witness ==
    /\ routerListener.listeners = 1
    /\ listenerCurrentId \in Ids
    /\ grids[GridUnderTest].mounted
    /\ grids[GridUnderTest].focusedCol = 1
    /\ grids[GridUnderTest].listener.listeners = 1
    /\ evt.key = "ArrowRight"
    /\ GridUnderTest \in evt.grids

\* C26 as stated: every engine the WorkoutTimer creates was created with
\* durationSeconds >= 1.
C26_EngineDurationAtLeastOne ==
    timer.engine => durationSeconds >= 1

\* C27: for a coordinator with rowCount <= 0 or colCount <= 0, whatever loop
\* is, wherever its indices stand, every arrow key passes to setFocused
\* integers that are 0 on each degenerate axis and within 0..count-1 on the
\* other: never negative, never beyond the range.
C27_DegenerateAxisStaysZero ==
    [][ \A e \in ArrowEvents :
          ( /\ Grid.mounted
            /\ Grid.rowCount <= 0 \/ Grid.colCount <= 0
            /\ KeyEvent(e) )
          => /\ Grid'.focusedRow \in 0..(Max(Grid.rowCount, 1) - 1)
             /\ Grid'.focusedCol \in 0..(Max(Grid.colCount, 1) - 1)
             /\ Grid.rowCount <= 0 => Grid'.focusedRow = 0
             /\ Grid.colCount <= 0 => Grid'.focusedCol = 0 ]_vars

\* rowCount = -2 with loop: ArrowUp from row 0 wrapped to rowCount - 1 = -3,
\* and the index passed on is 0
C27_Witness ==
    /\ Grid.mounted
    /\ Grid.rowCount = 0 - MaxNegCount
    /\ Grid.loop
    /\ evt.key = "ArrowUp"
    /\ GridUnderTest \in evt.grids
    /\ Grid.focusedRow = 0

\* C28: an Enter or Space key makes the coordinator call onEnter, and a Back
\* key makes it call onBack when one was given, with the focused indices as
\* they stand, which only an arrow key, a setFocused call or a mount has set;
\* neither key changes the coordinator.
C28_EnterBackPassCurrentIndices ==
    /\ [][ \A e \in KeyEvents :
             ( /\ evt'.raw = e
               /\ Grid.mounted
               /\ isActivationKey(NormalizeTVKey(e)) \/ isBackKey(NormalizeTVKey(e))
               /\ KeyEvent(e) )
             => /\ Grid' = Grid
                /\ GridCalls(grids, NormalizeTVKey(e)) =
                     IF isActivationKey(NormalizeTVKey(e))
                     THEN {[grid |-> GridUnderTest, fn |-> "onEnter",
                            row |-> Grid.focusedRow, col |-> Grid.focusedCol]}
                     ELSE IF Grid.onBack
                     THEN {[grid |-> GridUnderTest, fn |-> "onBack",
                            row |-> Grid.focusedRow, col |-> Grid.focusedCol]}
                     ELSE {} ]_vars
    /\ [][ (Grid'.focusedRow # Grid.focusedRow \/ Grid'.focusedCol # Grid.focusedCol) =>
             \/ Grid'.mounted # Grid.mounted
             \/ /\ isArrow(evt'.key)
                /\ GridUnderTest \in evt'.grids
                /\ <<Grid'.focusedRow, Grid'.focusedCol>> = HandleArrow(Grid, evt'.key)
             \/ /\ evt' = evt
                /\ CallSetFocused(GridUnderTest, Grid'.focusedRow, Grid'.focusedCol) ]_vars
    /\ [](Grid.mounted => (Grid.seenRow = Grid.focusedRow /\ Grid.seenCol = Grid.focusedCol))

\* Back has called onBack with the position two arrow keys led to
C28_Witness ==
    /\ Grid.mounted /\ Grid.onBack
    /\ Grid.rowCount = 2 /\ Grid.colCount = 2
    /\ evt.key = "Back"
    /\ GridUnderTest \in evt.grids
    /\ GridCalls(grids, evt.key) = {[grid |-> GridUnderTest, fn |-> "onBack", row |-> 1, col |-> 1]}

\* C29: while the modal is open every Back key event (Back, Escape, Esc or
\* Backspace) calls the close callback exactly once, after which no exercise
\* is selected and the modal's key listener is off window.
C29_BackClosesOnce ==
    /\ [][ \A e \in BackKeyEvents :
             (evt'.raw = e /\ ModalOpen /\ KeyEvent(e))
             => /\ evt'.closeCalls = 1
                /\ ~ModalOpen'
                /\ modalListeners' = 0 ]_vars
    /\ [](modalListeners = IF ModalOpen THEN 1 ELSE 0)

\* Backspace has closed the modal with one call of the close callback
C29_Witness ==
    /\ evt.raw.key = "Backspace"
    /\ evt.closeCalls = 1
    /\ ~ModalOpen
    /\ modalListeners = 0

\* C30: a getState() call changes none of paused, pauseStartedAt,
\* accumulatedPause and completed, calls neither onTick nor onComplete, and
\* returns as total the durationSeconds the engine was created with.
C30_GetStateHasNoSideEffects ==
    /\ [][ snapshot' # snapshot =>
             /\ UNCHANGED <<paused, pauseStartedAt, accumulatedPause, completed>>
             /\ UNCHANGED <<onTickCalls, lastTick, onCompleteCalls>>
             /\ UNCHANGED <<now, endTime, intervalVars>>
             /\ snapshot'.total = durationSeconds ]_vars
    /\ [](snapshot # NoSnapshot => snapshot.total = endTime \div MsPerSecond)

\* getState() was read when the last second had run out and the tick that
\* completes the countdown had not yet run
C30_Witness ==
    /\ snapshot = [paused |-> FALSE, completed |-> FALSE, remaining |-> 0, total |-> MaxDur]
    /\ ~completed
    /\ onCompleteCalls = 0

C35_CompletedIsFinal ==
    /\ [](completed => (~paused /\ Remaining = 0))
    /\ [][ completed => /\ completed' /\ ~paused'
                        /\ Remaining' = 0
                        /\ UNCHANGED <<pauseStartedAt, accumulatedPause>> ]_vars

\* the countdown completed after a pause that was resumed, and the clock has
\* run on past the completion
C35_Witness ==
    /\ completed
    /\ accumulatedPause > 0
    /\ now > endTime + accumulatedPause
    /\ Remaining = 0

\* C37: every onComplete call comes in a tick that has just called onTick(0),
\* and once onComplete has been called onTick is never called again.
C37_TickZeroThenComplete ==
    /\ [][ onCompleteCalls' # onCompleteCalls =>
             /\ onCompleteCalls' = onCompleteCalls + 1
             /\ onTickCalls' = onTickCalls + 1
             /\ lastTick' = 0 ]_vars
    /\ [][ onCompleteCalls > 0 => onTickCalls' = onTickCalls ]_vars
    /\ [](onCompleteCalls > 0 => lastTick = 0)

\* the countdown completed on its third onTick call and wake-ups that were
\* still pending have run since
C37_Witness ==
    /\ onCompleteCalls = 1
    /\ onTickCalls >= 3
    /\ lastTick = 0
    /\ ~timerPending
    /\ now > endTime + accumulatedPause

\* C40: an arrow key leaves the index of the other axis as it was when that
\* index was within range: ArrowUp/ArrowDown keep focusedCol, ArrowLeft/
\* ArrowRight keep focusedRow.
C40_ArrowKeepsOtherAxis ==
    [][ \A e \in KeyEvents :
          ( /\ evt'.raw = e
            /\ isArrow(NormalizeTVKey(e))
            /\ Grid.mounted
            /\ KeyEvent(e) )
          => /\ ( /\ NormalizeTVKey(e) \in {"ArrowUp", "ArrowDown"}
                  /\ Grid.focusedCol >= 0 /\ Grid.focusedCol < Grid.colCount )
                => Grid'.focusedCol = Grid.focusedCol
             /\ ( /\ NormalizeTVKey(e) \in {"ArrowLeft", "ArrowRight"}
                  /\ Grid.focusedRow >= 0 /\ Grid.focusedRow < Grid.rowCount )
                => Grid'.focusedRow = Grid.focusedRow ]_vars

\* ArrowDown has moved to the second row of a 2 x 3 grid in its last column
C40_Witness ==
    /\ Grid.mounted
    /\ Grid.rowCount = 2 /\ Grid.colCount = 3
    /\ evt.key = "ArrowDown"
    /\ GridUnderTest \in evt.grids
    /\ Grid.focusedRow = 1
    /\ Grid.focusedCol = 2

\* C39: with the modal open, an arrow key event takes the focus from index i
\* of the collected list of n elements to index min(i+1, n-1) on ArrowRight and
\* max(i-1, 0) on ArrowLeft, and to the first collected element from an element
\* outside the list; with an empty list the focus stays.
C39_TrapMovesByOne ==
    [][ \A e \in KeyEvents :
          ( /\ evt'.raw = e
            /\ ModalOpen
            /\ isArrow(NormalizeTVKey(e))
            /\ KeyEvent(e) )
          => LET f == collectFocusable(TRUE)
                 k == NormalizeTVKey(e)
                 i == FindActive(f, activeElement)
             IN  activeElement' =
                   IF Len(f) = 0 THEN activeElement
                   ELSE IF i < 0 THEN f[1].el
                   ELSE IF k = "ArrowRight" THEN f[Min(Len(f) - 1, i + 1) + 1].el
                   ELSE IF k = "ArrowLeft" THEN f[Max(0, i - 1) + 1].el
                   ELSE activeElement ]_vars

\* C34: while the modal stays open no step, in particular no Enter or Space
\* key event, changes the captured prior-focus element or the selected exercise.
C34_NoReopenWhileOpen ==
    [][ (ModalOpen /\ ModalOpen') => UNCHANGED <<lastFocusedRef, selectedExercise>> ]_vars

\* C31: an Enter, OK or Space key event that finds the focus on a TVFocusable
\* with an onSelect callback calls that callback, whatever coordinators or
\* timer listeners are mounted.
C31_ActivationCallsOnSelect ==
    [][ \A e \in KeyEvents :
          ( /\ evt'.raw = e
            /\ isActivationKey(NormalizeTVKey(e))
            /\ activeElement \in Ids
            /\ KeyEvent(e) )
          => evt'.selects = activeElement ]_vars

\* C33: whenever the WorkoutTimer's running state is true, engineRef holds an
\* engine that is counting: not completed, not paused and not cancelled.
C33_RunningEngineCounts ==
    (timer.mounted /\ timer.running) => (timer.engine /\ ~completed /\ ~paused /\ active)

C38_ResetLeavesReady ==
    /\ [][ ( /\ timer.mounted
             /\ UNCHANGED <<now, engineVars, onTickCalls>>
             /\ \/ evt' = evt /\ ResetClick
                \/ isBackKey(evt'.key) /\ KeyEvent(evt'.raw) )
           => /\ ~timer'.running /\ ~timer'.completed /\ ~timer'.engine
              /\ timer'.remaining = timer'.duration
              /\ timer'.duration = timer.duration ]_vars
    /\ [][ (timer.mounted /\ ~timer.engine /\ ~timer'.engine) =>
             /\ UNCHANGED <<onTickCalls, lastTick, onCompleteCalls>>
             /\ timer'.completed = timer.completed
             /\ timer'.remaining # timer.remaining => timer'.remaining = timer.duration ]_vars

\* Back has reset a timer whose engine was counting: the timer is ready and
\* the wake-up the engine had requested is still to come
C38_Witness ==
    /\ timer.mounted
    /\ evt.key = "Back"
    /\ ~timer.running /\ ~timer.completed /\ ~timer.engine
    /\ timer.remaining = timer.duration
    /\ timerPending /\ ~active
    /\ now > 0

====
